---- MODULE Spec2Model ----
(***************************************************************************)
(* Model of the range/port scanner of src/main.go: generateIPs, the port   *)
(* list built in main, the sequential liveness loop, the port-probe        *)
(* goroutines, the closer goroutine and the aggregation loop.              *)
(*                                                                         *)
(* Strings are sequences of one-character strings, so that parsing and     *)
(* formatting are computed, not assumed.  A net.IP of length 4 is a        *)
(* sequence of four octets.  A uint32 is kept as two 16-bit limbs          *)
(* <<high, low>> because the checker's integers are 32-bit signed.         *)
(***************************************************************************)
EXTENDS Integers, Sequences, FiniteSets, Bags, TLC

\* a nil slice: it has length 0
Nil == <<>>

\* a byte holds 0 .. Base-1 and wraps (ip[j]++ on a byte, uint32(b[k]) << 8)
Base == 256

\* the model stops following the generateIPs loop once ips holds MaxIPs
\* entries (a loop that runs longer never returns in the runs modelled)
MaxIPs == 5

\* the runs modelled launch at most MaxTasks port-probe goroutines
MaxTasks == 4

\* the runs checked for progress scan at most MaxFairHosts addresses
MaxFairHosts == 2

\* longest port specification string of the port-list specification
MaxSpecLen == 3

\* most hosts during whose probe a packet of another sender arrives
MaxStray == 1

----------------------------------------------------------------------------
(* Strings                                                                 *)

Digits == <<"0", "1", "2", "3", "4", "5", "6", "7", "8", "9">>

IsDigit(c) == \E k \in 1..10 : Digits[k] = c

DigitVal(c) == (CHOOSE k \in 1..10 : Digits[k] = c) - 1

\* strings.Split(s, sep) for a one-character separator: the fields between
\* consecutive separators, the ends of s counting as separators
Split(s, sep) ==
    LET at     == { k \in 1..Len(s) : s[k] = sep }
        cut(i) == IF i = 0 THEN 0
                  ELSE IF i > Cardinality(at) THEN Len(s) + 1
                  ELSE CHOOSE k \in at : Cardinality({ m \in at : m < k }) = i - 1
    IN  [i \in 1..(Cardinality(at) + 1) |-> SubSeq(s, cut(i - 1) + 1, cut(i) - 1)]

\* value of a string of decimal digits
DecVal(s) ==
    LET v[k \in 0..Len(s)] == IF k = 0 THEN 0 ELSE 10 * v[k - 1] + DigitVal(s[k])
    IN  v[Len(s)]

AllDigits(s) == \A k \in 1..Len(s) : IsDigit(s[k])

\* strconv.Atoi: an optional sign and at least one decimal digit; any other
\* string is a syntax error and the value returned with the error is 0
Atoi(s) ==
    LET signed == Len(s) > 0 /\ s[1] \in {"+", "-"}
        body   == IF signed THEN SubSeq(s, 2, Len(s)) ELSE s
    IN  IF Len(body) = 0 \/ ~AllDigits(body)
        THEN [val |-> 0, err |-> TRUE]
        ELSE [val |-> IF signed /\ s[1] = "-" THEN 0 - DecVal(body) ELSE DecVal(body),
              err |-> FALSE]

\* strconv.Itoa for n >= 0
RECURSIVE Itoa(_)
Itoa(n) == IF n < 10 THEN <<Digits[n + 1]>>
           ELSE Itoa(n \div 10) \o <<Digits[(n % 10) + 1]>>

----------------------------------------------------------------------------
(* IPv4 addresses                                                          *)

\* one field of a dotted quad: 1 to 3 digits, no leading zero, at most 255
OctetOK(f) ==
    /\ Len(f) \in 1..3
    /\ AllDigits(f)
    /\ (Len(f) > 1 => f[1] # "0")
    /\ DecVal(f) < Base

\* net.ParseIP(s).To4() on a string without ':' : the four octets, or Nil
ParseIP(s) ==
    LET f == Split(s, ".")
    IN  IF Len(f) = 4 /\ \A k \in 1..4 : OctetOK(f[k])
        THEN [k \in 1..4 |-> DecVal(f[k])]
        ELSE Nil

\* net.IP.String() of a 4-byte address
IPString(b) ==
    Itoa(b[1]) \o <<".">> \o Itoa(b[2]) \o <<".">> \o Itoa(b[3]) \o <<".">> \o Itoa(b[4])

\* uint32(b[0])<<24 | uint32(b[1])<<16 | uint32(b[2])<<8 | uint32(b[3])
bytes2int(b) == <<b[1] * Base + b[2], b[3] * Base + b[4]>>

\* x <= y and x < y on uint32 values
Leq32(x, y) == x[1] < y[1] \/ (x[1] = y[1] /\ x[2] <= y[2])

Lt32(x, y) == x[1] < y[1] \/ (x[1] = y[1] /\ x[2] < y[2])

\* the loop of inc from index j downwards: ip[j]++ ; if ip[j] > 0 break
RECURSIVE incFrom(_, _)
incFrom(b, j) ==
    IF j < 1 THEN b
    ELSE LET v  == (b[j] + 1) % Base
             b2 == [b EXCEPT ![j] = v]
         IN  IF v > 0 THEN b2 ELSE incFrom(b2, j - 1)

\* mutant: only the last octet is incremented, the carry is dropped
incLastOctet(b) == [b EXCEPT ![Len(b)] = (b[Len(b)] + 1) % Base]

inc(b) == incFrom(b, Len(b))

----------------------------------------------------------------------------
(* The port list of main                                                   *)

\* mutant: the loop stops one short of endPort
PortListExclusive(spec) ==
    LET portParts == Split(spec, "-")
        startPort == Atoi(portParts[1]).val
        endPort   == IF Len(portParts) > 1 THEN Atoi(portParts[2]).val ELSE startPort
    IN  IF endPort <= startPort THEN <<>>
        ELSE [k \in 1..(endPort - startPort) |-> startPort + k - 1]

\* main: portParts, startPort, endPort (the Atoi errors are discarded) and
\* the loop  for i := startPort; i <= endPort; i++ { ports = append(ports, i) }
PortList(spec) ==
    LET portParts == Split(spec, "-")
        startPort == Atoi(portParts[1]).val
        endPort   == IF Len(portParts) > 1 THEN Atoi(portParts[2]).val ELSE startPort
    IN  IF endPort < startPort THEN <<>>
        ELSE [k \in 1..(endPort - startPort + 1) |-> startPort + k - 1]

----------------------------------------------------------------------------
(* Inputs                                                                  *)

Str(b) == IPString(b)

BadIPs == { <<"a", "b", "c">>,
            <<"1", ".", "2", ".", "3">>,
            <<"2", "5", "6", ".", "0", ".", "0", ".", "1">>,
            <<"1", "0", ".", "0", ".", "0", ".", "0", "1">> }

\* <<start, end>> pairs given to the scan
ScanInputs ==
    { <<Str(<<10, 0, 0, 255>>), Str(<<10, 0, 1, 0>>)>>,
      <<Str(<<10, 0, 0, 254>>), Str(<<10, 0, 1, 1>>)>>,
      <<Str(<<10, 0, 255, 255>>), Str(<<10, 1, 0, 1>>)>>,
      <<Str(<<10, 0, 0, 7>>), Str(<<10, 0, 0, 7>>)>>,
      <<Str(<<10, 0, 0, 9>>), Str(<<10, 0, 0, 8>>)>>,
      <<Str(<<10, 0, 1, 0>>), Str(<<10, 0, 0, 255>>)>>,
      <<Str(<<255, 255, 255, 255>>), Str(<<0, 0, 0, 0>>)>>,
      <<Str(<<255, 255, 255, 254>>), Str(<<255, 255, 255, 255>>)>>,
      <<<<"2", "5", "6", ".", "0", ".", "0", ".", "1">>, <<"a", "b", "c">>>> }
    \cup { <<b, Str(<<10, 0, 0, 7>>)>> : b \in BadIPs }
    \cup { <<Str(<<10, 0, 0, 7>>), b>> : b \in BadIPs }

\* port specifications given to the scan
ScanPortSpecs ==
    { <<"8", "0">>,
      <<"2", "0", "-", "2", "1">>,
      <<"2", "0", "-", "2", "2">>,
      <<"2", "2", "-", "2", "0">>,
      <<"x">>,
      <<"7", "-", "x">>,
      <<"1", "-", "2", "-", "3">>,
      <<>> }

\* start, start+1, ... : the first n addresses from b, by numeric successor
RECURSIVE AddrsFrom(_, _)
AddrsFrom(b, n) == IF n = 0 THEN <<>> ELSE <<b>> \o AddrsFrom(inc(b), n - 1)

\* y - x for x <= y, exact below 2^30 and 2^30 from there on
Sub32(y, x) ==
    IF y[1] - x[1] > 16383 THEN 1073741824
    ELSE (y[1] - x[1]) * 65536 + (y[2] - x[2])

\* the number of addresses of [s, e]: e - s + 1, or 0 when s > e
RangeSize(s, e) ==
    IF Leq32(bytes2int(s), bytes2int(e)) THEN Sub32(bytes2int(e), bytes2int(s)) + 1 ELSE 0

Min(a, b) == IF a < b THEN a ELSE b

\* the addresses of [s, e] as a sequence of strings (at most MaxIPs of them)
RangeStrings(s, e) ==
    LET a == AddrsFrom(s, Min(RangeSize(s, e), MaxIPs))
    IN  [k \in 1..Len(a) |-> IPString(a[k])]

SeqToSet(q) == { q[k] : k \in 1..Len(q) }

\* the hosts and ports the environment answers for, given the inputs
EnvHosts(s, e) ==
    IF ParseIP(s) = Nil \/ ParseIP(e) = Nil THEN {}
    ELSE SeqToSet(RangeStrings(ParseIP(s), ParseIP(e)))

----------------------------------------------------------------------------
(* State                                                                   *)

VARIABLES
    startIP, endIP, portRange,  \* the inputs: -start, -end, -ports
    envAlive,                   \* hosts that answer the echo request in time
    envStray,                   \* silent hosts during whose probe the listener
                                \* receives a packet of another sender
    envLocal,                   \* "ok", or the local step of pingHost that fails
    envOpen,                    \* <<host, port>> on which scanPort returns Open
    pc,                         \* position of the main goroutine
    end,                        \* generateIPs: end
    ip,                         \* generateIPs: the loop variable (aliases start)
    genIps,                     \* generateIPs: ips
    ips, err,                   \* main: ips, err
    ports,                      \* main: ports
    made,                       \* results has been made
    chanCap,                    \* capacity of results
    results,                    \* the buffered contents of the results channel
    closed,                     \* results has been closed
    wg,                         \* the WaitGroup counter
    activeHosts,                \* main: activeHosts (the keys set to true)
    hostIdx, portIdx,           \* positions of the two range loops of main
    tasks,                      \* the port-probe goroutines, in launch order
    closer,                     \* position of the closer goroutine
    openPorts,                  \* main: openPorts
    summary,                    \* what the summary printed, <<>> before
    listener,                   \* number of open ICMP listeners
    access,                     \* history: <<goroutine, object>> for each use of
                                \* activeHosts, openPorts and hostMutex
    pingLog,                    \* history: the pingHost calls and their answers
    sent,                       \* history: bag of the ScanResults sent
    consumed,                   \* history: bag of the ScanResults received
    faults                      \* history: run-time panics raised

inputs == <<startIP, endIP, portRange, envAlive, envStray, envLocal, envOpen>>

genVars == <<end, ip, genIps>>

chanVars == <<made, chanCap, results, closed, wg>>

histVars == <<pingLog, sent, consumed, faults>>

vars == <<startIP, endIP, portRange, envAlive, envStray, envLocal, envOpen,
          listener, access, pc, end, ip, genIps, ips,
          err, ports, made, chanCap, results, closed, wg, activeHosts, hostIdx, portIdx,
          tasks, closer, openPorts, summary, pingLog, sent, consumed, faults>>

\* a map without keys
EmptyMap == [k \in {} |-> <<>>]

\* the state of main before generateIPs is called
InitState ==
    /\ pc = "generateIPs"
    /\ end = Nil /\ ip = Nil /\ genIps = <<>>
    /\ ips = <<>> /\ err = FALSE
    /\ ports = <<>>
    /\ made = FALSE /\ chanCap = 0 /\ results = <<>> /\ closed = FALSE /\ wg = 0
    /\ activeHosts = {}
    /\ hostIdx = 1 /\ portIdx = 1
    /\ tasks = <<>>
    /\ closer = "none"
    /\ openPorts = EmptyMap
    /\ summary = <<>>
    /\ listener = 0 /\ access = {}
    /\ pingLog = <<>> /\ sent = EmptyBag /\ consumed = EmptyBag /\ faults = {}

\* pingHost: every local step works, or ListenPacket (line 24), Marshal
\* (line 39) or WriteTo (line 44) returns an error
LocalOutcomes == {"ok", "listen", "marshal", "send"}

Init ==
    /\ \E io \in ScanInputs : startIP = io[1] /\ endIP = io[2]
    /\ portRange \in ScanPortSpecs
    /\ Cardinality(EnvHosts(startIP, endIP)) * Len(PortList(portRange)) <= MaxTasks
    /\ envAlive \in SUBSET EnvHosts(startIP, endIP)
    /\ envStray \in SUBSET (EnvHosts(startIP, endIP) \ envAlive)
    /\ Cardinality(envStray) <= MaxStray
    /\ envStray # {} => envAlive = {}
    /\ envLocal \in LocalOutcomes
    /\ envOpen \in SUBSET (EnvHosts(startIP, endIP) \X SeqToSet(PortList(portRange)))
    /\ InitState

----------------------------------------------------------------------------
(* generateIPs                                                             *)

\* start == nil || end == nil
ParseFailed(start, e) == start = Nil \/ e = Nil

\* mutant: the error is discarded
ErrIgnored(e) == "ports"

\* main, lines 164-167: where main goes once generateIPs has returned err
ErrCheck(e) == IF e THEN "exit" ELSE "ports"

\* lines 71-76: parse both addresses; on failure return (nil, error), which
\* main reports before it returns
GenParse ==
    /\ pc = "generateIPs"
    /\ LET start == ParseIP(startIP)
           e     == ParseIP(endIP)
       IN  IF ParseFailed(start, e)
           THEN /\ err' = TRUE
                /\ pc' = ErrCheck(TRUE)
                /\ UNCHANGED genVars
           ELSE /\ ip' = start
                /\ end' = e
                /\ genIps' = <<>>
                /\ pc' = "gen_loop"
                /\ err' = FALSE
    /\ UNCHANGED <<inputs, listener, access, ips, ports, chanVars, activeHosts, hostIdx, portIdx,
                   tasks, closer, openPorts, summary, histVars>>

\* mutant: the loop runs until ip equals end
GenCondUntilEqual(b, e) == b # Nil /\ bytes2int(b) # bytes2int(inc(e))

\* the loop condition  ip != nil && bytes2int(ip) <= bytes2int(end)
GenCond(b, e) == b # Nil /\ Leq32(bytes2int(b), bytes2int(e))

\* one iteration: ips = append(ips, ip.String()); inc(ip)
GenStep ==
    /\ pc = "gen_loop"
    /\ GenCond(ip, end)
    /\ Len(genIps) < MaxIPs
    /\ genIps' = Append(genIps, IPString(ip))
    /\ ip' = inc(ip)
    /\ UNCHANGED <<inputs, listener, access, pc, end, ips, err, ports, chanVars, activeHosts, hostIdx,
                   portIdx, tasks, closer, openPorts, summary, histVars>>

\* the loop exits: return ips, nil; main goes on to the port list
GenReturn ==
    /\ pc = "gen_loop"
    /\ ~GenCond(ip, end)
    /\ ips' = genIps
    /\ err' = FALSE
    /\ pc' = ErrCheck(FALSE)
    /\ UNCHANGED <<inputs, listener, access, genVars, ports, chanVars, activeHosts, hostIdx,
                   portIdx, tasks, closer, openPorts, summary, histVars>>

----------------------------------------------------------------------------
(* The probes, as the environment answers them                             *)

\* mutant: the goroutines use activeHosts
TaskTouchesActiveHosts == {"activeHosts"}

\* lines 194-197: the objects among activeHosts, openPorts and hostMutex
\* that the closure of a port-probe goroutine uses
TaskTouches == {}

\* lines 204-207: the same for the closer goroutine
CloserTouches == {}

\* the uses recorded when goroutine g uses the objects in m
Uses(g, m) == { <<g, o>> : o \in m }

\* line 24: icmp.ListenPacket succeeds
ListenOK == envLocal # "listen"

\* what c.ReadFrom (line 52) receives before the deadline during the probe of h
EnvPacket(h) ==
    IF h \in envAlive THEN "reply" ELSE IF h \in envStray THEN "stray" ELSE "none"

\* mutant: a failed ListenPacket is not noticed
pingHostNoListenCheck(h) == EnvPacket(h) # "none"

\* pingHost(ip, timeout): false when ListenPacket, Marshal or WriteTo fails;
\* otherwise  err == nil  of c.ReadFrom, whatever was read and from whom
pingHost(h) == envLocal = "ok" /\ EnvPacket(h) # "none"

\* scanPort(ip, port, timeout): Open iff the TCP connection is established
scanPort(h, p) == [IP |-> h, Port |-> p, Open |-> <<h, p>> \in envOpen]

----------------------------------------------------------------------------
(* main, from the port list to the summary                                 *)

\* lines 169-179
MainPorts ==
    /\ pc = "ports"
    /\ ports' = PortList(portRange)
    /\ pc' = "make"
    /\ UNCHANGED <<inputs, listener, access, genVars, ips, err, chanVars, activeHosts, hostIdx, portIdx,
                   tasks, closer, openPorts, summary, histVars>>

\* mutant: the capacity counts the hosts only
ChanSizeHosts(nIps, nPorts) == nIps

\* the capacity given to make(chan ScanResult, ...)
ChanSize(nIps, nPorts) == nIps * nPorts

\* lines 181-184
MainMake ==
    /\ pc = "make"
    /\ made' = TRUE
    /\ chanCap' = ChanSize(Len(ips), Len(ports))
    /\ results' = <<>>
    /\ activeHosts' = {}
    /\ hostIdx' = 1
    /\ pc' = "ping"
    /\ access' = access \cup Uses("main", {"activeHosts", "hostMutex"})
    /\ UNCHANGED <<inputs, listener, genVars, ips, err, ports, closed, wg, portIdx, tasks,
                   closer, openPorts, summary, histVars>>

\* where the loop over ports goes after index k of host index i: the next
\* port, or the next host when the ports are exhausted
AfterPort(i, k) ==
    IF k < Len(ports) THEN [pc |-> "launch", hostIdx |-> i, portIdx |-> k + 1]
    ELSE [pc |-> "ping", hostIdx |-> i + 1, portIdx |-> 1]

\* mutant: the port loop is entered whatever pingHost returned
ScanEveryHost(up) == TRUE

\* the branch of line 187: the port loop is entered iff pingHost returned true
ScanThisHost(up) == up

\* mutant: the listener is left open
ListenerLeaked(n) == n

\* line 28, defer c.Close(): runs on every return after a successful
\* ListenPacket
ListenerClosed(n) == IF n > 0 THEN n - 1 ELSE n

\* line 187, the call, up to line 24-28: pingHost opens its listener; when
\* that fails it has nothing to close and is about to return false
PingListen ==
    /\ pc = "ping"
    /\ hostIdx <= Len(ips)
    /\ listener' = IF ListenOK THEN listener + 1 ELSE listener
    /\ pc' = "pinging"
    /\ UNCHANGED <<inputs, access, genVars, ips, err, ports, chanVars, activeHosts,
                   hostIdx, portIdx, tasks, closer, openPorts, summary, histVars>>

\* lines 29-53 and 187-191, 199-201: pingHost returns, its deferred Close
\* has run, and main takes the branch of one iteration of the loop over ips
MainPing ==
    /\ pc = "pinging"
    /\ LET h  == ips[hostIdx]
           up == pingHost(h)
       IN  /\ pingLog' = Append(pingLog, [ip |-> h, up |-> up])
           /\ listener' = ListenerClosed(listener)
           /\ IF ScanThisHost(up)
              THEN /\ activeHosts' = activeHosts \cup {h}
                   /\ access' = access \cup Uses("main", {"hostMutex", "activeHosts"})
                   /\ LET nxt == AfterPort(hostIdx, 0)
                      IN  /\ pc' = nxt.pc
                          /\ hostIdx' = nxt.hostIdx
                          /\ portIdx' = nxt.portIdx
              ELSE /\ hostIdx' = hostIdx + 1
                   /\ pc' = "ping"
                   /\ UNCHANGED <<activeHosts, access, portIdx>>
    /\ UNCHANGED <<inputs, genVars, ips, err, ports, chanVars, tasks, closer,
                   openPorts, summary, sent, consumed, faults>>

\* the goroutine started for (h, p): go func(ip string, port int) {...}(ip, port)
NewTask(h, p) == [ip |-> h, port |-> p, pc |-> "scan", open |-> FALSE]

\* mutant: the goroutine is started twice
LaunchedTwice(h, p) == <<NewTask(h, p), NewTask(h, p)>>

\* the goroutines started by one iteration of the loop over ports
Launched(h, p) == <<NewTask(h, p)>>

\* lines 192-198: wg.Add(1) and the go statement for ports[portIdx]
MainLaunch ==
    /\ pc = "launch"
    /\ portIdx <= Len(ports)
    /\ LET new == Launched(ips[hostIdx], ports[portIdx])
           nxt == AfterPort(hostIdx, portIdx)
       IN  /\ wg' = wg + Len(new)
           /\ tasks' = tasks \o new
           /\ pc' = nxt.pc
           /\ hostIdx' = nxt.hostIdx
           /\ portIdx' = nxt.portIdx
    /\ UNCHANGED <<inputs, listener, access, genVars, ips, err, ports, made, chanCap, results, closed,
                   activeHosts, closer, openPorts, summary, histVars>>

\* lines 204-209: the loop over ips is over; start the closer goroutine and
\* make openPorts
MainGoCloser ==
    /\ pc = "ping"
    /\ hostIdx > Len(ips)
    /\ closer' = "wait"
    /\ openPorts' = EmptyMap
    /\ pc' = "range"
    /\ access' = access \cup Uses("main", {"openPorts"})
    /\ UNCHANGED <<inputs, listener, genVars, ips, err, ports, chanVars, activeHosts, hostIdx,
                   portIdx, tasks, summary, histVars>>

----------------------------------------------------------------------------
(* The port-probe goroutines                                               *)

\* line 196, the call: scanPort(ip, port, *timeout)
TaskScan(t) ==
    /\ t \in DOMAIN tasks
    /\ tasks[t].pc = "scan"
    /\ tasks' = [tasks EXCEPT ![t].pc = "send",
                              ![t].open = scanPort(tasks[t].ip, tasks[t].port).Open]
    /\ access' = access \cup Uses("probe", TaskTouches)
    /\ UNCHANGED <<inputs, listener, pc, genVars, ips, err, ports, chanVars, activeHosts,
                   hostIdx, portIdx, closer, openPorts, summary, histVars>>

\* what one goroutine puts into the channel
Sends(r) == <<r>>

\* line 196, the send: it waits while the buffer is full and panics on a
\* closed channel
TaskSend(t) ==
    /\ t \in DOMAIN tasks
    /\ tasks[t].pc = "send"
    /\ LET r == [IP |-> tasks[t].ip, Port |-> tasks[t].port, Open |-> tasks[t].open]
       IN  IF closed
           THEN /\ faults' = faults \cup {"send on closed channel"}
                /\ tasks' = [tasks EXCEPT ![t].pc = "panic"]
                /\ UNCHANGED <<results, sent>>
           ELSE /\ Len(results) + Len(Sends(r)) <= chanCap
                /\ results' = results \o Sends(r)
                /\ sent' = sent (+) [x \in {r} |-> Len(Sends(r))]
                /\ tasks' = [tasks EXCEPT ![t].pc = "done"]
                /\ UNCHANGED faults
    /\ access' = access \cup Uses("probe", TaskTouches)
    /\ UNCHANGED <<inputs, listener, pc, genVars, ips, err, ports, made, chanCap, closed, wg,
                   activeHosts, hostIdx, portIdx, closer, openPorts, summary,
                   pingLog, consumed>>

\* line 195: the deferred wg.Done()
TaskDone(t) ==
    /\ t \in DOMAIN tasks
    /\ tasks[t].pc = "done"
    /\ wg' = wg - 1
    /\ faults' = IF wg - 1 < 0 THEN faults \cup {"negative WaitGroup counter"} ELSE faults
    /\ tasks' = [tasks EXCEPT ![t].pc = "exit"]
    /\ access' = access \cup Uses("probe", TaskTouches)
    /\ UNCHANGED <<inputs, listener, pc, genVars, ips, err, ports, made, chanCap, results,
                   closed, activeHosts, hostIdx, portIdx, closer, openPorts, summary,
                   pingLog, sent, consumed>>

----------------------------------------------------------------------------
(* The closer goroutine                                                    *)

\* mutant: the closer does not wait
WaitOverAtOnce(n) == TRUE

\* mutant: the wait is released on the wrong comparison
WaitOverNegative(n) == n < 0

\* wg.Wait() returns when the counter is zero
WaitOver(n) == n = 0

\* line 205
CloserWait ==
    /\ closer = "wait"
    /\ WaitOver(wg)
    /\ closer' = "close"
    /\ access' = access \cup Uses("closer", CloserTouches)
    /\ UNCHANGED <<inputs, listener, pc, genVars, ips, err, ports, chanVars, activeHosts,
                   hostIdx, portIdx, tasks, openPorts, summary, histVars>>

\* line 206
CloserClose ==
    /\ closer = "close"
    /\ closed' = TRUE
    /\ faults' = IF closed THEN faults \cup {"close of closed channel"} ELSE faults
    /\ closer' = "done"
    /\ access' = access \cup Uses("closer", CloserTouches)
    /\ UNCHANGED <<inputs, listener, pc, genVars, ips, err, ports, made, chanCap, results, wg,
                   activeHosts, hostIdx, portIdx, tasks, openPorts, summary,
                   pingLog, sent, consumed>>

----------------------------------------------------------------------------
(* The aggregation loop and the summary                                    *)

\* mutant: the port replaces the list instead of being appended to it
AggregateLast(m, r) ==
    IF r.Open
    THEN [k \in DOMAIN m \cup {r.IP} |-> IF k = r.IP THEN <<r.Port>> ELSE m[k]]
    ELSE m

\* mutant: the Open field is not tested
AggregateAll(m, r) ==
    IF r.IP \in DOMAIN m
    THEN [m EXCEPT ![r.IP] = Append(@, r.Port)]
    ELSE [k \in DOMAIN m \cup {r.IP} |-> IF k = r.IP THEN <<r.Port>> ELSE m[k]]

\* lines 211-213: the effect of one received result on openPorts
Aggregate(m, r) ==
    IF r.Open
    THEN IF r.IP \in DOMAIN m
         THEN [m EXCEPT ![r.IP] = Append(@, r.Port)]
         ELSE [k \in DOMAIN m \cup {r.IP} |-> IF k = r.IP THEN <<r.Port>> ELSE m[k]]
    ELSE m

\* line 210, one receive
MainRecv ==
    /\ pc = "range"
    /\ Len(results) > 0
    /\ LET r == Head(results)
       IN  /\ results' = Tail(results)
           /\ consumed' = consumed (+) SetToBag({r})
           /\ openPorts' = Aggregate(openPorts, r)
    /\ access' = IF Head(results).Open THEN access \cup Uses("main", {"openPorts"}) ELSE access
    /\ UNCHANGED <<inputs, listener, pc, genVars, ips, err, ports, made, chanCap, closed, wg,
                   activeHosts, hostIdx, portIdx, tasks, closer, summary, pingLog,
                   sent, faults>>

\* mutant: the loop ends as soon as the buffer is empty
RangeOverWhenEmpty(q, c) == Len(q) = 0

\* the range over results ends when the channel is closed and empty
RangeOver(q, c) == c /\ Len(q) = 0

\* line 210, the exit of the loop
MainRangeEnd ==
    /\ pc = "range"
    /\ RangeOver(results, closed)
    /\ pc' = "summary"
    /\ UNCHANGED <<inputs, listener, access, genVars, ips, err, ports, chanVars, activeHosts, hostIdx,
                   portIdx, tasks, closer, openPorts, summary, histVars>>

\* lines 216-224: the summary reads activeHosts and openPorts
MainSummary ==
    /\ pc = "summary"
    /\ summary' = <<[total |-> Cardinality(activeHosts),
                     hosts |-> activeHosts,
                     open  |-> [h \in activeHosts \cap DOMAIN openPorts |-> openPorts[h]]]>>
    /\ pc' = "done"
    /\ access' = access \cup Uses("main", {"activeHosts", "openPorts"})
    /\ UNCHANGED <<inputs, listener, genVars, ips, err, ports, chanVars, activeHosts, hostIdx,
                   portIdx, tasks, closer, openPorts, histVars>>

----------------------------------------------------------------------------
Next ==
    \/ GenParse
    \/ GenStep
    \/ GenReturn
    \/ MainPorts
    \/ MainMake
    \/ PingListen
    \/ MainPing
    \/ MainLaunch
    \/ MainGoCloser
    \/ \E t \in 1..Len(tasks) : TaskScan(t)
    \/ \E t \in 1..Len(tasks) : TaskSend(t)
    \/ \E t \in 1..Len(tasks) : TaskDone(t)
    \/ CloserWait
    \/ CloserClose
    \/ MainRecv
    \/ MainRangeEnd
    \/ MainSummary

Spec == Init /\ [][Next]_vars

\* the scheduler runs every goroutine that can take a step: main, the
\* closer and each port-probe goroutine; the runs are those of the smaller
\* ranges in which every packet received is a reply of the probed host
FairInit ==
    /\ Init
    /\ Cardinality(EnvHosts(startIP, endIP)) <= MaxFairHosts
    /\ envStray = {}

FairSpec ==
    /\ FairInit
    /\ [][Next]_vars
    /\ WF_vars(GenParse \/ GenStep \/ GenReturn \/ MainPorts \/ MainMake \/ PingListen
               \/ MainPing
               \/ MainLaunch \/ MainGoCloser \/ MainRecv \/ MainRangeEnd \/ MainSummary)
    /\ WF_vars(CloserWait \/ CloserClose)
    /\ WF_vars(\E t \in DOMAIN tasks : TaskScan(t) \/ TaskSend(t) \/ TaskDone(t))

----------------------------------------------------------------------------
(* Properties                                                              *)

\* the address strings of the scan inputs and of their ranges
KnownStrings ==
    {io[1] : io \in ScanInputs} \cup {io[2] : io \in ScanInputs}
        \cup UNION { EnvHosts(io[1], io[2]) : io \in ScanInputs }

\* ParseIP tabulated on the known strings
ParseTable == [s \in KnownStrings |-> ParseIP(s)]

\* ParseIP(s), looked up where it is tabulated
Parsed(s) == IF s \in KnownStrings THEN ParseTable[s] ELSE ParseIP(s)

\* the aggregation loop of main has ended
AggregationOver == pc \in {"summary", "done"}

\* number of ScanResults sent for (h, p), whatever their Open field
SentCount(h, p) ==
    CopiesIn([IP |-> h, Port |-> p, Open |-> TRUE], sent)
    + CopiesIn([IP |-> h, Port |-> p, Open |-> FALSE], sent)

\* number of ScanResults sent that carry host h
SentFor(h) ==
    BagCardinality([r \in { x \in BagToSet(sent) : x.IP = h } |-> sent[r]])

\* the goroutines launched for (h, p)
TasksFor(h, p) == { t \in 1..Len(tasks) : tasks[t].ip = h /\ tasks[t].port = p }

\* hosts on which pingHost has returned true / false so far
PingedUp == { pingLog[k].ip : k \in { n \in 1..Len(pingLog) : pingLog[n].up } }

PingedDown == { pingLog[k].ip : k \in { n \in 1..Len(pingLog) : ~pingLog[n].up } }

\* number of occurrences of x in the sequence q
Count(x, q) == Cardinality({ k \in 1..Len(q) : q[k] = x })

\* C1: for every host on which pingHost returned true, one goroutine is
\* launched per port and, once the aggregation is over, exactly Len(ports)
\* results have been sent for the host, one for each port; at no time is a
\* (host, port) pair probed or sent twice.
C1_OneResultPerPort ==
    \A h \in PingedUp :
        /\ \A p \in SeqToSet(ports) :
              /\ Cardinality(TasksFor(h, p)) <= 1
              /\ SentCount(h, p) <= 1
              /\ AggregationOver =>
                    Cardinality(TasksFor(h, p)) = 1 /\ SentCount(h, p) = 1
        /\ SentFor(h) <= Len(ports)
        /\ AggregationOver => SentFor(h) = Len(ports)

C1_Witness ==
    /\ pc = "done"
    /\ Cardinality(PingedUp) = 2
    /\ Len(ports) = 2
    /\ BagCardinality(sent) = 4

\* the ports for which scanPort returned Open = true to a goroutine of host h
ReturnedOpen(h) ==
    { tasks[t].port : t \in { n \in 1..Len(tasks) :
            tasks[n].ip = h /\ tasks[n].open /\ tasks[n].pc # "scan" } }

\* openPorts[h], or the empty list when h is no key
OpenList(h) == IF h \in DOMAIN openPorts THEN openPorts[h] ELSE <<>>

\* C2: when the aggregation loop has ended, every result sent has been
\* received exactly once, openPorts[h] holds exactly the ports for which
\* scanPort(h, p) returned Open = true, each once, and every key of
\* openPorts is in activeHosts.
C2_AggregatedExactlyOnce ==
    AggregationOver =>
        /\ consumed = sent
        /\ Len(results) = 0
        /\ \A h \in SeqToSet(ips) \cup DOMAIN openPorts :
              \A p \in SeqToSet(ports) \cup SeqToSet(OpenList(h)) :
                  Count(p, OpenList(h)) = IF p \in ReturnedOpen(h) THEN 1 ELSE 0
        /\ DOMAIN openPorts \subseteq activeHosts

C2_Witness ==
    /\ pc = "done"
    /\ Len(tasks) = 4
    /\ \E h \in DOMAIN openPorts : Len(openPorts[h]) = 2
    /\ \E r \in BagToSet(consumed) : ~r.Open

\* C3: a host on which pingHost returned false has no goroutine, no result
\* sent, buffered or received, and is neither in activeHosts nor a key of
\* openPorts.
C3_DeadHostNotScanned ==
    \A h \in PingedDown :
        /\ \A t \in 1..Len(tasks) : tasks[t].ip # h
        /\ \A r \in BagToSet(sent) \cup BagToSet(consumed) \cup SeqToSet(results) : r.IP # h
        /\ h \notin activeHosts
        /\ h \notin DOMAIN openPorts

C3_Witness ==
    /\ pc = "done"
    /\ Cardinality(PingedDown) = 1
    /\ Cardinality(PingedUp) = 1
    /\ Len(tasks) = 2
    /\ \E h \in PingedDown : \E p \in SeqToSet(ports) : <<h, p>> \in envOpen

\* C8: whenever main is at or past the summary, every goroutine launched
\* has finished, the results channel is closed and empty, and what the
\* summary printed is the final activeHosts and openPorts.
C8_SummaryAfterCompletion ==
    AggregationOver =>
        /\ \A t \in 1..Len(tasks) : tasks[t].pc = "exit"
        /\ wg = 0
        /\ closed
        /\ Len(results) = 0
        /\ consumed = sent
        /\ Len(summary) > 0 =>
              /\ summary[1].hosts = activeHosts
              /\ \A h \in activeHosts : h \in DOMAIN summary[1].open <=> h \in DOMAIN openPorts

C8_Witness ==
    /\ pc = "done"
    /\ Len(summary) = 1
    /\ Len(tasks) = 4
    /\ summary[1].total = 2

\* the inputs parse and start <= end as 32-bit integers
ValidRange ==
    /\ Parsed(startIP) # Nil
    /\ Parsed(endIP) # Nil
    /\ Leq32(bytes2int(Parsed(startIP)), bytes2int(Parsed(endIP)))

\* the address written s lies in [start, end]
InRange(s) ==
    /\ Parsed(s) # Nil
    /\ Leq32(bytes2int(Parsed(startIP)), bytes2int(Parsed(s)))
    /\ Leq32(bytes2int(Parsed(s)), bytes2int(Parsed(endIP)))

\* generateIPs has returned without error
GenReturned == pc \notin {"generateIPs", "gen_loop", "exit"}

\* C4 (as claimed): for valid start <= end, every address generateIPs
\* yields lies in [start, end], the addresses yielded are strictly ascending
\* (so without duplicates), and the list returned is start, start+1, ...,
\* end: end - start + 1 addresses without gaps.
C4_RangeExact ==
    ValidRange =>
        /\ \A k \in 1..Len(genIps) : InRange(genIps[k])
        /\ \A k \in 1..(Len(genIps) - 1) :
              Lt32(bytes2int(Parsed(genIps[k])), bytes2int(Parsed(genIps[k + 1])))
        /\ GenReturned =>
              /\ Len(ips) = RangeSize(Parsed(startIP), Parsed(endIP))
              /\ ips = RangeStrings(Parsed(startIP), Parsed(endIP))

\* C5 (as claimed): generateIPs terminates on every pair of valid addresses:
\* its loop runs at most once per address of [start, end] (not at all when
\* start > end), also when end is 255.255.255.255.
C5_LoopBounded ==
    (Parsed(startIP) # Nil /\ Parsed(endIP) # Nil) =>
        Len(genIps) <= RangeSize(Parsed(startIP), Parsed(endIP))

\* a port specification that is to be refused: a token that is no number,
\* more than two tokens, or N > M in the two-token form
InvalidPortSpec(spec) ==
    LET parts == Split(spec, "-")
    IN  \/ \E k \in 1..Len(parts) : Atoi(parts[k]).err
        \/ Len(parts) > 2
        \/ Len(parts) = 2 /\ Atoi(parts[1]).val > Atoi(parts[2]).val

\* C6 (as claimed): with an invalid port specification the scan aborts
\* before any probe: main never calls pingHost and launches no port-probe
\* goroutine.
C6_InvalidPortSpecAborts ==
    InvalidPortSpec(portRange) =>
        /\ Len(pingLog) = 0
        /\ Len(tasks) = 0

\* C7: if start or end does not parse, generateIPs returns an error and main
\* returns at once: no channel is made, pingHost is never called and no
\* goroutine is launched.
C7_InvalidAddressStops ==
    (Parsed(startIP) = Nil \/ Parsed(endIP) = Nil) =>
        /\ pc \in {"generateIPs", "exit"}
        /\ pc = "exit" => err
        /\ ~made
        /\ Len(pingLog) = 0
        /\ Len(tasks) = 0
        /\ closer = "none"

C7_Witness ==
    /\ pc = "exit"
    /\ err
    /\ Parsed(startIP) # Nil
    /\ Parsed(endIP) = Nil

\* the open ports recorded for h, as a set
OpenSet(h) == SeqToSet(OpenList(h))

\* the hosts of the range on which pingHost returns true
EnvUp == { h \in EnvHosts(startIP, endIP) : pingHost(h) }

\* C10: the outcome of a finished run is a function of the inputs and of the
\* environment's answers alone, so two runs against the same environment
\* agree whatever their interleavings: the alive hosts are the hosts of the
\* range that answer the ping, and the set of open ports of each is the set
\* of ports of the list that accept the connection.
C10_OutcomeDetermined ==
    pc = "done" =>
        /\ activeHosts = EnvUp
        /\ summary[1].hosts = activeHosts
        /\ \A h \in EnvHosts(startIP, endIP) \cup DOMAIN openPorts :
              OpenSet(h) = IF h \in EnvUp
                           THEN { p \in SeqToSet(PortList(portRange)) : <<h, p>> \in envOpen }
                           ELSE {}

\* a finished run whose port list for a host is not in dispatch order
C10_Witness ==
    /\ pc = "done"
    /\ Cardinality(activeHosts) = 2
    /\ \E h \in DOMAIN openPorts :
          Len(openPorts[h]) = 2 /\ openPorts[h][1] > openPorts[h][2]

\* C9: once the address list and the port list are built, the run reaches
\* the end of the summary, with every goroutine finished and the channel
\* closed and drained.
C9_ReachesSummary ==
    (pc = "make") ~>
        (/\ pc = "done"
         /\ closed
         /\ Len(results) = 0
         /\ \A t \in 1..Len(tasks) : tasks[t].pc = "exit")

C9_Witness ==
    /\ pc = "done"
    /\ closed
    /\ Len(pingLog) = 2
    /\ Cardinality(PingedUp) = 1
    /\ Len(tasks) = 2

\* C14 (as claimed): every port of the port list, and so the Port field of
\* every goroutine and of every ScanResult, lies in 1..65535, whatever the
\* port specification.
C14_PortsInRange ==
    /\ \A k \in 1..Len(ports) : ports[k] >= 1 /\ ports[k] <= 65535
    /\ \A t \in 1..Len(tasks) : tasks[t].port >= 1 /\ tasks[t].port <= 65535
    /\ \A r \in BagToSet(sent) : r.Port >= 1 /\ r.Port <= 65535

\* both inputs parse and start > end as 32-bit integers
ReversedRange ==
    /\ Parsed(startIP) # Nil
    /\ Parsed(endIP) # Nil
    /\ Lt32(bytes2int(Parsed(endIP)), bytes2int(Parsed(startIP)))

\* C15: if start > end, generateIPs yields no address and returns the empty
\* list without error; pingHost is never called, no goroutine is launched
\* and no result is sent.
C15_ReversedRangeEmpty ==
    ReversedRange =>
        /\ Len(genIps) = 0
        /\ Len(ips) = 0
        /\ ~err
        /\ pc # "exit"
        /\ Len(pingLog) = 0
        /\ Len(tasks) = 0
        /\ sent = EmptyBag
        /\ activeHosts = {}

C15_Witness ==
    /\ ReversedRange
    /\ pc = "done"
    /\ summary[1].total = 0
    /\ Len(ports) = 2

\* C17: the results channel never holds more than its capacity
\* Len(ips) * Len(ports), the sends of a run never exceed it, and a goroutine
\* that has reached its send finds room in the buffer: no send waits.
C17_SendNeverBlocks ==
    made =>
        /\ chanCap = Len(ips) * Len(ports)
        /\ Len(results) <= chanCap
        /\ BagCardinality(sent) <= chanCap
        /\ Len(tasks) <= chanCap
        /\ \A t \in 1..Len(tasks) : tasks[t].pc = "send" => Len(results) < chanCap

\* a goroutine is about to send while main has not started receiving and
\* the buffer already holds a result
C17_Witness ==
    /\ pc \in {"ping", "launch"}
    /\ Len(results) >= 2
    /\ \E t \in 1..Len(tasks) : tasks[t].pc = "send"

\* the goroutines that have not yet called wg.Done
Outstanding == { t \in 1..Len(tasks) : tasks[t].pc # "exit" }

\* C18: the WaitGroup counter is the number of goroutines that have not
\* called Done and is never negative; the closer starts only when main has
\* left the loop that calls wg.Add; the channel is closed once, after every
\* goroutine has sent and called Done, and no send meets a closed channel.
C18_ClosedOnceAfterAll ==
    /\ faults = {}
    /\ wg >= 0
    /\ wg = Cardinality(Outstanding)
    /\ closer # "none" => pc \in {"range", "summary", "done"}
    /\ closer \in {"close", "done"} => Outstanding = {}
    /\ closed <=> closer = "done"
    /\ closed => BagCardinality(sent) = Len(tasks)

C18_Witness ==
    /\ closed
    /\ closer = "done"
    /\ Len(tasks) = 4
    /\ pc = "range"
    /\ Len(results) > 0

-----------------------------------------------------------------------------
(* The port list on its own: every specification string over a small      *)
(* alphabet, given to lines 169-179                                        *)

SpecChars == {"0", "1", "2", "-"}

SpecStrings == UNION { [1..n -> SpecChars] : n \in 0..MaxSpecLen }

PortsInit ==
    /\ startIP = Str(<<10, 0, 0, 7>>) /\ endIP = Str(<<10, 0, 0, 7>>)
    /\ portRange \in SpecStrings
    /\ envAlive = {} /\ envStray = {} /\ envLocal = "ok" /\ envOpen = {}
    /\ listener = 0 /\ access = {}
    /\ pc = "ports"
    /\ end = Nil /\ ip = Nil /\ genIps = <<>>
    /\ ips = <<Str(<<10, 0, 0, 7>>)>> /\ err = FALSE
    /\ ports = <<>>
    /\ made = FALSE /\ chanCap = 0 /\ results = <<>> /\ closed = FALSE /\ wg = 0
    /\ activeHosts = {}
    /\ hostIdx = 1 /\ portIdx = 1
    /\ tasks = <<>>
    /\ closer = "none"
    /\ openPorts = EmptyMap
    /\ summary = <<>>
    /\ pingLog = <<>> /\ sent = EmptyBag /\ consumed = EmptyBag /\ faults = {}

PortsNext == MainPorts

SpecPorts == PortsInit /\ [][PortsNext]_vars

\* a port number written in decimal: digits only, value in 1..65535
PortToken(s) == Len(s) > 0 /\ AllDigits(s) /\ DecVal(s) >= 1 /\ DecVal(s) <= 65535

\* "N", or "N-M" with N <= M
ValidPortSpec(s) ==
    LET parts == Split(s, "-")
    IN  \/ Len(parts) = 1 /\ PortToken(parts[1])
        \/ /\ Len(parts) = 2
           /\ PortToken(parts[1]) /\ PortToken(parts[2])
           /\ DecVal(parts[1]) <= DecVal(parts[2])

\* C13: for a valid port specification the port list is the ascending
\* inclusive range: it starts at N, ends at M, each entry is one more than
\* the one before it, and "N" gives the list of "N-N", which is [N].
C13_PortListExact ==
    (pc = "make" /\ ValidPortSpec(portRange)) =>
        LET parts == Split(portRange, "-")
            N == DecVal(parts[1])
            M == DecVal(parts[Len(parts)])
        IN  /\ Len(ports) = M - N + 1
            /\ ports[1] = N
            /\ ports[Len(ports)] = M
            /\ \A k \in 1..(Len(ports) - 1) : ports[k + 1] = ports[k] + 1
            /\ Len(parts) = 1 =>
                   /\ ports = <<N>>
                   /\ ports = PortList(portRange \o <<"-">> \o portRange)

C13_Witness ==
    /\ pc = "make"
    /\ portRange = <<"1", "-", "2">>
    /\ ports = <<1, 2>>

-----------------------------------------------------------------------------
(* generateIPs on its own, on addresses whose increment carries            *)

CarryStarts ==
    { <<a, b, c, d>> : a \in {0, 9, 255}, b \in {0, 255}, c \in {0, 255}, d \in {254, 255} }

GenInit ==
    /\ \E s \in CarryStarts :
          /\ startIP = Str(s)
          /\ endIP \in {Str(s), Str(<<255, 255, 255, 255>>)}
    /\ portRange = <<"8", "0">>
    /\ envAlive = {} /\ envStray = {} /\ envLocal = "ok" /\ envOpen = {}
    /\ InitState

GenNext == GenParse \/ GenStep \/ GenReturn

SpecGen == GenInit /\ [][GenNext]_vars

\* x + 1 modulo 2^32, on the two 16-bit halves
Add1(x) == IF x[2] = 65535 THEN <<(x[1] + 1) % 65536, 0>> ELSE <<x[1], x[2] + 1>>

\* C16: after inc, the 32-bit value of the address is the value before plus
\* one modulo 2^32: the loop variable of generateIPs is always the successor
\* of the address appended last, with the carry taken through all octets.
C16_IncIsSuccessor ==
    (pc = "gen_loop" /\ Len(genIps) > 0) =>
        bytes2int(ip) = Add1(bytes2int(ParseIP(genIps[Len(genIps)])))

\* the carry ran through all four octets
C16_Witness ==
    /\ pc = "gen_loop"
    /\ Len(genIps) > 0
    /\ genIps[Len(genIps)] = Str(<<255, 255, 255, 255>>)
    /\ ip = <<0, 0, 0, 0>>

-----------------------------------------------------------------------------
(* pingHost and the liveness loop                                          *)

\* C11 (as claimed): pingHost returns true only if the probed host itself
\* answered in time, and false when a local step fails, when nothing is
\* received, and when the only packet received is not a reply of that host.
C11_TrueOnlyIfHostAnswered ==
    \A k \in 1..Len(pingLog) :
        pingLog[k].up <=> (envLocal = "ok" /\ pingLog[k].ip \in envAlive)

\* what holds in every state of a run in which ListenPacket fails
ListenFailureSilent ==
    /\ faults = {}
    /\ listener = 0
    /\ \A k \in 1..Len(pingLog) : ~pingLog[k].up
    /\ activeHosts = {}
    /\ Len(tasks) = 0
    /\ sent = EmptyBag
    /\ pc = "exit" => err
    /\ pc = "done" => summary[1].total = 0 /\ Len(pingLog) = Len(ips)

\* C12: if the ICMP listener cannot be opened, pingHost returns false for
\* every host and raises no fault, no host is alive, no port probe is
\* launched and no ScanResult is sent, and the run that built its address
\* and port lists pings every host and reaches the end of the summary.
C12_NoPrivilegeDegrades ==
    /\ [](envLocal = "listen" => ListenFailureSilent)
    /\ (envLocal = "listen" /\ pc = "make") ~> (pc = "done")

\* a finished run without privilege in a network where a host would answer
C12_Witness ==
    /\ envLocal = "listen"
    /\ pc = "done"
    /\ Len(pingLog) = 2
    /\ envAlive # {}
    /\ envOpen # {}
    /\ summary[1].total = 0

\* C19: the liveness probes are the addresses of ips in order, strictly
\* ascending, one call at a time: a call is in progress only while main is
\* inside pingHost, all earlier calls have returned, at most one ICMP
\* listener is open, and none is open once pingHost has returned.  The order
\* is checked where a call has just returned, on the two calls made last.
C19_PingsSequential ==
    /\ listener <= 1
    /\ pc = "pinging" => /\ Len(pingLog) = hostIdx - 1
                         /\ listener = IF ListenOK THEN 1 ELSE 0
    /\ pc # "pinging" => listener = 0
    /\ pc = "ping" => Len(pingLog) = hostIdx - 1
    /\ pc = "launch" => Len(pingLog) = hostIdx
    /\ Len(pingLog) <= Len(ips)
    /\ \A k \in 1..Len(pingLog) : pingLog[k].ip = ips[k]
    /\ (pc \in {"ping", "launch"} /\ Len(pingLog) >= 2) =>
          LET n == Len(pingLog)
          IN  Lt32(bytes2int(Parsed(pingLog[n - 1].ip)), bytes2int(Parsed(pingLog[n].ip)))

\* the second host is being pinged while a port probe of the first is
\* still in flight
C19_Witness ==
    /\ pc = "pinging"
    /\ listener = 1
    /\ hostIdx = 2
    /\ pingLog[1].up
    /\ \E t \in 1..Len(tasks) : tasks[t].pc = "scan" /\ tasks[t].ip = ips[1]

====
